---- MODULE Spec2Model ----
(***************************************************************************)
(* BaseExtension.find of heyzec/Inkscape-Extensions: the path-expression   *)
(* query over an SVG document tree (src/BaseExtension.py).                 *)
(*                                                                         *)
(* A string is a sequence of one-character strings; a node is a natural    *)
(* number, 0 being the document root; a document is a record               *)
(*   [kind |-> function node -> class name, parent |-> function node ->    *)
(*    parent node]                                                         *)
(* whose children are ordered by node number.  The optional debugging      *)
(* argument tb of find only prints and is left at its default, None.       *)
(*                                                                         *)
(* Variables: document is self.document; obj and xpath are the arguments   *)
(* of find; pc is where the call stands ("find" called, "recurse" running, *)
(* "returned", "raised"); calls are the calls of recurse still to run, the *)
(* next one first, each [objects, cur_xpath]; output is what the calls run *)
(* so far have added to the list find returns; msgs counts the "WARN: list *)
(* index out of range" messages; error is the exception find raised.       *)
(***************************************************************************)
EXTENDS Integers, Sequences, FiniteSets, TLC

VARIABLES document, obj, xpath, pc, calls, output, msgs, error

vars == <<document, obj, xpath, pc, calls, output, msgs, error>>

(***************************** bounds **************************************)
\* nodes below the root of a document
MaxNodes == 3
\* length of a caller-supplied candidate list
MaxCand == 1
\* steps of an expression
MaxSteps == 2

(***************************** strings *************************************)
Digits == {"0", "1", "2", "3", "4", "5", "6", "7", "8", "9"}

Letters == {"g", "p", "l", "z", "i", "m", "_"}

\* the class \w of the regular expression
WordChars == Letters \cup Digits

DigitVal(c) ==
    CASE c = "0" -> 0 [] c = "1" -> 1 [] c = "2" -> 2 [] c = "3" -> 3
      [] c = "4" -> 4 [] c = "5" -> 5 [] c = "6" -> 6 [] c = "7" -> 7
      [] c = "8" -> 8 [] c = "9" -> 9

Range(s) == {s[i] : i \in 1..Len(s)}

\* the element of a one-element set: Only({e(x) : x \in {v}}) is e(v), with
\* v worked out once
Only(S) == CHOOSE r \in S : TRUE

\* s[a..b], empty when a > b
Sub(s, a, b) == IF a > b THEN << >> ELSE SubSeq(s, a, b)

AllDigits(s) == \A i \in 1..Len(s) : s[i] \in Digits

\* str.split(':')
RECURSIVE split(_)
split(s) ==
    IF \E i \in 1..Len(s) : s[i] = ":"
    THEN LET i == CHOOSE j \in 1..Len(s) :
                    s[j] = ":" /\ \A k \in 1..(j - 1) : s[k] # ":"
         IN  <<Sub(s, 1, i - 1)>> \o split(Sub(s, i + 1, Len(s)))
    ELSE <<s>>

RECURSIVE NatOf(_)
NatOf(s) == IF s = << >> THEN 0
            ELSE 10 * NatOf(Sub(s, 1, Len(s) - 1)) + DigitVal(s[Len(s)])

\* int(n) on a piece the regular expression lets through: an optional '-'
\* and digits; int('-') raises ValueError
int(n) ==
    IF n # << >> /\ n[1] = "-"
    THEN IF Len(n) = 1 THEN [raised |-> TRUE, val |-> 0]
         ELSE [raised |-> FALSE, val |-> 0 - NatOf(Tail(n))]
    ELSE [raised |-> FALSE, val |-> NatOf(n)]

(************************ the regular expression ***************************)
\* -?\d+
IsFirstPiece(p) ==
    LET d == IF p # << >> /\ p[1] = "-" THEN Tail(p) ELSE p
    IN  d # << >> /\ AllDigits(d)

\* -?(?:\d+)?
IsLaterPiece(p) ==
    LET d == IF p # << >> /\ p[1] = "-" THEN Tail(p) ELSE p
    IN  AllDigits(d)

\* -?\d+(?::-?(?:\d+)?){0,2}
IsIndexBody(b) ==
    LET ps == split(b)
    IN  /\ Len(ps) <= 3
        /\ IsFirstPiece(ps[1])
        /\ \A i \in 2..Len(ps) : IsLaterPiece(ps[i])

\* (\w+|\*) at position j: the number of characters it takes, 0 for no match
TypeLen(s, j) ==
    IF j > Len(s) THEN 0
    ELSE IF s[j] \in WordChars
         THEN LET ends == {k \in j..Len(s) : \A m \in j..k : s[m] \in WordChars}
              IN  Cardinality(ends)
         ELSE IF s[j] = "*" THEN 1 ELSE 0

\* (//?) at position i, greedy, given up for '/' when no type follows '//':
\* the number of characters of the axis, 0 for no match at i
AxisLen(s, i) ==
    IF i > Len(s) \/ s[i] # "/" THEN 0
    ELSE IF i + 1 <= Len(s) /\ s[i + 1] = "/" /\ TypeLen(s, i + 2) > 0 THEN 2
         ELSE IF TypeLen(s, i + 1) > 0 THEN 1 ELSE 0

\* (?:\[(...)\])?(.*) at position k, after the type
IndexAndRest(s, k) ==
    LET closes == {e \in (k + 1)..Len(s) : s[e] = "]"}
    IN  IF k <= Len(s) /\ s[k] = "[" /\ closes # {}
        THEN Only({IF IsIndexBody(Sub(s, k + 1, e - 1))
                    THEN [this_n |-> Sub(s, k + 1, e - 1),
                          next_xpath |-> Sub(s, e + 1, Len(s))]
                    ELSE [this_n |-> << >>, next_xpath |-> Sub(s, k, Len(s))] :
                  e \in {CHOOSE c \in closes : \A d \in closes : c <= d}})
        ELSE [this_n |-> << >>, next_xpath |-> Sub(s, k, Len(s))]

\* the match that starts at i with an axis of al and a type of tl characters
MatchAt(s, i, al, tl) ==
    Only({[found |-> TRUE, at |-> i,
                      axis |-> Sub(s, i, i + al - 1),
                      this_type |-> Sub(s, i + al, i + al + tl - 1),
                      this_n |-> ir.this_n, next_xpath |-> ir.next_xpath] :
         ir \in {IndexAndRest(s, i + al + tl)}})

\* re.findall(pattern, cur_xpath, re.VERBOSE): found is FALSE for an empty
\* list, and otherwise the record is the first (leftmost) match
findall(cur_xpath) ==
    LET starts == {i \in 1..Len(cur_xpath) : AxisLen(cur_xpath, i) > 0}
    IN  IF starts = {}
        THEN [found |-> FALSE, at |-> 0, axis |-> << >>, this_type |-> << >>,
              this_n |-> << >>, next_xpath |-> << >>]
        ELSE Only({Only({Only({MatchAt(cur_xpath, i, al, tl) :
                   tl \in {TypeLen(cur_xpath, i + al)}}) :
                 al \in {AxisLen(cur_xpath, i)}}) :
               i \in {CHOOSE a \in starts : \A b \in starts : a <= b}})

(***************************** the document ******************************)
Nodes(doc) == DOMAIN doc.kind

\* [child for child in node]: the children of a node, in document order
Children(doc, n) ==
    SelectSeq([c \in 1..Len(doc.parent) |-> c], LAMBDA c : doc.parent[c] = n)

\* self.document.getroot().iter(): the element itself, then its descendants,
\* depth first
RECURSIVE iter(_, _)
RECURSIVE iterAll(_, _)
iter(doc, n) == <<n>> \o Only({iterAll(doc, ns) : ns \in {Children(doc, n)}})
iterAll(doc, ns) ==
    IF ns = << >> THEN << >> ELSE iter(doc, Head(ns)) \o iterAll(doc, Tail(ns))

\* the loop of z_iter over the elements still to visit, with count elements
\* of alist not yet found
RECURSIVE z_iter_loop(_, _, _)
z_iter_loop(elements, alist, count) ==
    IF elements = << >> THEN << >>
    ELSE IF Head(elements) \in Range(alist)
         THEN <<Head(elements)>> \o
              (IF count - 1 = 0 THEN << >>
               ELSE z_iter_loop(Tail(elements), alist, count - 1))
         ELSE z_iter_loop(Tail(elements), alist, count)

z_iter(doc, alist) ==
    Only({z_iter_loop(elements, alist, Len(alist)) : elements \in {iter(doc, 0)}})

\* z_sort left out: the list as the caller gave it
z_sort_as_given(doc, alist) == alist

z_sort(doc, alist) == z_iter(doc, alist)

(***************************** find ***************************************)
tag_dict ==
    [t \in {<<"l">>, <<"g">>, <<"p">>, <<"i", "m", "g">>} |->
        CASE t = <<"l">> -> "Layer"
          [] t = <<"g">> -> "Group"
          [] t = <<"p">> -> "PathElement"
          [] t = <<"i", "m", "g">> -> "Image"]

is_meta(doc, n) ==
    doc.kind[n] \in {"Defs", "NamedView", "Metadata", "StyleElement"}

is_iterable(doc, n) == doc.kind[n] \in {"Group", "Layer"}

\* lines 154-159: this_n as None, an int or a list of int and None
convert_n(this_n) ==
    IF this_n = << >> THEN [raised |-> FALSE, form |-> "None", n |-> 0, parts |-> << >>]
    ELSE IF ":" \in Range(this_n)
         THEN LET ps == split(this_n)
                  conv == [i \in 1..Len(ps) |->
                             IF ps[i] # << >>
                             THEN [none |-> FALSE, val |-> int(ps[i]).val]
                             ELSE [none |-> TRUE, val |-> 0]]
              IN  [raised |-> \E i \in 1..Len(ps) : ps[i] # << >> /\ int(ps[i]).raised,
                   form |-> "list", n |-> 0, parts |-> conv]
         ELSE [raised |-> int(this_n).raised, form |-> "int",
               n |-> int(this_n).val, parts |-> << >>]

\* the indices range(*slice(start, stop, step).indices(len)) visits, 0-based
RECURSIVE slice_walk(_, _, _)
slice_walk(i, stop, step) ==
    IF (step > 0 /\ i < stop) \/ (step < 0 /\ i > stop)
    THEN <<i>> \o slice_walk(i + step, stop, step)
    ELSE << >>

slice_bound(v, len, step) ==
    IF v.none THEN (IF step > 0 THEN len ELSE 0 - 1)
    ELSE IF v.val < 0
         THEN (IF v.val + len < 0 THEN (IF step > 0 THEN 0 ELSE 0 - 1) ELSE v.val + len)
         ELSE (IF v.val >= len THEN (IF step > 0 THEN len ELSE len - 1) ELSE v.val)

slice_start(v, len, step) ==
    IF v.none THEN (IF step > 0 THEN 0 ELSE len - 1) ELSE slice_bound(v, len, step)

\* matching_types[slice(*this_n)] for a non-zero step
list_slice(lst, parts) ==
    LET step == IF Len(parts) < 3 \/ parts[3].none THEN 1 ELSE parts[3].val
        idx  == slice_walk(slice_start(parts[1], Len(lst), step),
                           slice_bound(parts[2], Len(lst), step), step)
    IN  [k \in 1..Len(idx) |-> lst[idx[k] + 1]]

\* the try block without its except clause
select_matches_uncaught(matching_types, n) ==
    IF n.form = "None"
    THEN [raised |-> "", warn |-> 0, matches |-> matching_types]
    ELSE IF n.form = "int"
    THEN IF n.n >= Len(matching_types) \/ n.n < 0 - Len(matching_types)
         THEN [raised |-> "IndexError", warn |-> 0, matches |-> << >>]
         ELSE [raised |-> "", warn |-> 0,
               matches |-> <<matching_types[IF n.n < 0 THEN n.n + Len(matching_types) + 1
                                            ELSE n.n + 1]>>]
    ELSE IF n.parts[2].none
    THEN [raised |-> "AssertionError", warn |-> 0, matches |-> << >>]
    ELSE IF Len(n.parts) = 3 /\ ~n.parts[3].none /\ n.parts[3].val = 0
    THEN [raised |-> "ValueError", warn |-> 0, matches |-> << >>]
    ELSE [raised |-> "", warn |-> 0, matches |-> list_slice(matching_types, n.parts)]

\* lines 174-184: the try block; warn is 1 when the IndexError was caught
select_matches(matching_types, n) ==
    IF n.form = "None"
    THEN [raised |-> "", warn |-> 0, matches |-> matching_types]
    ELSE IF n.form = "int"
    THEN IF n.n >= Len(matching_types) \/ n.n < 0 - Len(matching_types)
         THEN [raised |-> "", warn |-> 1, matches |-> << >>]
         ELSE [raised |-> "", warn |-> 0,
               matches |-> <<matching_types[IF n.n < 0 THEN n.n + Len(matching_types) + 1
                                            ELSE n.n + 1]>>]
    ELSE IF n.parts[2].none
    THEN [raised |-> "AssertionError", warn |-> 0, matches |-> << >>]
    ELSE IF Len(n.parts) = 3 /\ ~n.parts[3].none /\ n.parts[3].val = 0
    THEN [raised |-> "ValueError", warn |-> 0, matches |-> << >>]
    ELSE [raised |-> "", warn |-> 0, matches |-> list_slice(matching_types, n.parts)]

\* one recursive call for the children of all iterable objects together
RECURSIVE merged_children(_, _)
merged_children(doc, to_recurse) ==
    IF to_recurse = << >> THEN << >>
    ELSE (IF is_iterable(doc, Head(to_recurse))
          THEN Children(doc, Head(to_recurse)) ELSE << >>)
         \o merged_children(doc, Tail(to_recurse))

recursive_calls_merged(doc, to_recurse, xp) ==
    IF \E i \in 1..Len(to_recurse) : is_iterable(doc, to_recurse[i])
    THEN <<[objects |-> merged_children(doc, to_recurse), cur_xpath |-> xp]>>
    ELSE << >>

\* lines 200-210: one recursive call per iterable object of to_recurse
RECURSIVE recursive_calls(_, _, _)
recursive_calls(doc, to_recurse, xp) ==
    IF to_recurse = << >> THEN << >>
    ELSE (IF is_iterable(doc, Head(to_recurse))
          THEN <<[objects |-> Children(doc, Head(to_recurse)), cur_xpath |-> xp]>>
          ELSE << >>)
         \o recursive_calls(doc, Tail(to_recurse), xp)

Raise(e) == [raised |-> e, output |-> << >>, warn |-> 0, calls |-> << >>]

\* the rest of the expression handed on whatever the axis
child_xpath_always_next(only_immediate, next_xpath, cur_xpath) == next_xpath

\* line 209: the expression a recursive call is given
child_xpath(only_immediate, next_xpath, cur_xpath) ==
    IF only_immediate THEN next_xpath ELSE cur_xpath

\* lines 162-212 of recurse, for the match m of the regular expression and
\* this_n as converted: the exception raised (or ""), what the call adds to
\* output itself, whether it printed the warning, and the recursive calls
\* it goes on to make
recurse_step(doc, objects, cur_xpath, m, this_n) ==
    LET only_immediate == m.axis # <<"/", "/">>
        match_type(o) ==
            m.this_type = <<"*">> \/ doc.kind[o] = tag_dict[m.this_type]
    IN  IF objects # << >> /\ m.this_type # <<"*">>
           /\ m.this_type \notin DOMAIN tag_dict THEN Raise("KeyError")
        ELSE Only({IF sel.raised # "" THEN Raise(sel.raised)
                 ELSE [raised |-> "",
                       output |-> IF only_immediate /\ m.next_xpath # << >>
                                  THEN << >> ELSE sel.matches,
                       warn |-> sel.warn,
                       calls |-> recursive_calls(doc,
                                    IF only_immediate
                                    THEN (IF m.next_xpath = << >> THEN << >>
                                          ELSE sel.matches)
                                    ELSE objects,
                                    child_xpath(only_immediate, m.next_xpath,
                                                cur_xpath))] :
               sel \in {select_matches(SelectSeq(objects, match_type), this_n)}})

\* lines 135-159 of recurse, for objects already in document order: the
\* regular expression and the conversion of this_n, then the rest
recurse_on(doc, objects, cur_xpath) ==
    Only({IF ~m.found THEN Raise("IndexError")
        ELSE Only({IF this_n.raised THEN Raise("ValueError")
                 ELSE recurse_step(doc, objects, cur_xpath, m, this_n) :
               this_n \in {convert_n(m.this_n)}}) :
      m \in {findall(cur_xpath)}})

\* recurse failing on an empty list of objects
recurse_empty_fails(doc, objects, cur_xpath) ==
    IF objects = << >> THEN Raise("IndexError")
    ELSE Only({recurse_on(doc, sorted, cur_xpath) : sorted \in {z_sort(doc, objects)}})

\* recurse(objects, cur_xpath, tb): line 133, then the rest
recurse(doc, objects, cur_xpath) ==
    Only({recurse_on(doc, sorted, cur_xpath) : sorted \in {z_sort(doc, objects)}})

\* lines 214-223: the objects find hands to recurse
find_objects(doc, o) ==
    IF o.type \in {"ElementList", "SvgDocumentElement"}
    THEN SelectSeq(o.items, LAMBDA child : ~is_meta(doc, child))
    ELSE o.items

\* find(obj, xpath) run to its end from a list of pending calls: the calls
\* of recurse made depth first, each adding its own output before that of
\* the calls it makes
RECURSIVE run(_, _, _, _)
run(doc, pending, out, warns) ==
    IF pending = << >> THEN [raised |-> "", output |-> out, msgs |-> warns]
    ELSE LET r == recurse(doc, Head(pending).objects, Head(pending).cur_xpath)
         IN  IF r.raised # "" THEN [raised |-> r.raised, output |-> << >>, msgs |-> warns]
             ELSE run(doc, r.calls \o Tail(pending), out \o r.output, warns + r.warn)

find(doc, o, xp) ==
    run(doc, <<[objects |-> find_objects(doc, o), cur_xpath |-> xp]>>, << >>, 0)

(***************************** inputs **************************************)
\* the documents of n nodes below the root with element classes of kinds: a
\* node's parent is the root or an earlier Group or Layer
DocsOf(n, kinds) ==
    {[kind |-> (0 :> "SvgDocumentElement") @@ kp[1], parent |-> kp[2]] :
        kp \in {x \in [1..n -> kinds] \X [1..n -> 0..n] :
            \A c \in 1..n : /\ x[2][c] < c
                            /\ x[2][c] # 0 => x[1][x[2][c]] \in {"Group", "Layer"}}}

Docs(max, kinds) == UNION {DocsOf(n, kinds) : n \in 0..max}

\* the sequences of at most max distinct nodes below the root, in any order
Lists(doc, max) ==
    UNION {{l \in [1..n -> Nodes(doc) \ {0}] : \A i, j \in 1..n : l[i] = l[j] => i = j} :
              n \in 0..max}

\* what a caller passes as obj: the document root (iterating it gives its
\* children), the selection (an ElementList), a plain list
Objs(doc, types, max) ==
    {o \in {[type |-> "SvgDocumentElement", items |-> Children(doc, 0)]} :
        o.type \in types}
    \cup {[type |-> t, items |-> l] :
            t \in types \cap {"ElementList", "list"}, l \in Lists(doc, max)}

\* the expressions of 1..n steps, a step being axis, type, index of the sets
StepTexts(axes, types, idxs) ==
    {a \o t \o i : a \in axes, t \in types, i \in idxs}

RECURSIVE Exprs(_, _)
Exprs(steps, n) ==
    IF n <= 1 THEN steps
    ELSE steps \cup {e \o s : e \in Exprs(steps, n - 1), s \in steps}

(***************************** the program *********************************)
\* find(obj, xpath) is called: lines 214-223, up to the call of recurse
Find ==
    /\ pc = "find"
    /\ calls' = <<[objects |-> find_objects(document, obj), cur_xpath |-> xpath]>>
    /\ pc' = "recurse"
    /\ UNCHANGED <<document, obj, xpath, output, msgs, error>>

\* the next pending call of recurse runs: lines 132-212
Recurse ==
    /\ pc = "recurse"
    /\ calls # << >>
    /\ \E r \in {recurse(document, Head(calls).objects, Head(calls).cur_xpath)} :
           IF r.raised # ""
           THEN /\ pc' = "raised"
                /\ error' = r.raised
                /\ calls' = << >>
                /\ output' = << >>
                /\ UNCHANGED msgs
           ELSE /\ calls' = r.calls \o Tail(calls)
                /\ output' = output \o r.output
                /\ msgs' = msgs + r.warn
                /\ UNCHANGED <<pc, error>>
    /\ UNCHANGED <<document, obj, xpath>>

\* the outermost recurse returns output to find's caller
Return ==
    /\ pc = "recurse"
    /\ calls = << >>
    /\ pc' = "returned"
    /\ UNCHANGED <<document, obj, xpath, calls, output, msgs, error>>

Next == Find \/ Recurse \/ Return

InitOver(docs, types, max, xpaths) ==
    /\ document \in docs
    /\ obj \in Objs(document, types, max)
    /\ xpath \in xpaths
    /\ pc = "find"
    /\ calls = << >>
    /\ output = << >>
    /\ msgs = 0
    /\ error = ""

\* well-formed steps, steps with an unknown type code or an open-ended
\* slice, and text that is no step: no type, no closing bracket, no axis
ErrorSteps ==
    StepTexts({<<"/">>, <<"/", "/">>}, {<<"*">>, <<"g">>, <<"z">>},
              {<< >>, <<"[", "1", ":", "]">>})
    \cup {<<"/", "[", "0", "]">>, <<"/", "g", "[", "0">>, <<"g">>}

Init ==
    InitOver(Docs(MaxNodes, {"Group", "PathElement", "Defs"}),
             {"SvgDocumentElement", "ElementList", "list"}, MaxCand,
             Exprs(ErrorSteps, MaxSteps))

Spec == Init /\ [][Next]_vars

\* documents of up to four nodes and candidate lists in any order, for the
\* three expressions of one indexed Immediate step
IdxNodes == 4

IdxCand == 4

IndexExprs ==
    StepTexts({<<"/">>}, {<<"g">>},
              {<<"[", "0", "]">>, <<"[", "-", "1", "]">>, <<"[", "0", ":", "2", "]">>})

InitIndex ==
    InitOver(Docs(IdxNodes, {"Group", "Layer", "PathElement"}), {"list"}, IdxCand,
             IndexExprs)

SpecIndex == InitIndex /\ [][Next]_vars

\* documents of up to four nodes, and expressions of one or two well-formed
\* steps with either axis, with and without an integer index
StepNodes == 4

StepCand == 1

StepCount == 2

Slash_g_5 == <<"/", "g", "[", "5", "]">>

StepExprs ==
    Exprs(StepTexts({<<"/">>, <<"/", "/">>}, {<<"g">>, <<"p">>},
                    {<< >>, <<"[", "0", "]">>}), StepCount)
    \cup {Slash_g_5}

InitSteps ==
    InitOver(Docs(StepNodes, {"Group", "PathElement"}),
             {"SvgDocumentElement", "list"}, StepCand, StepExprs)

SpecSteps == InitSteps /\ [][Next]_vars

\* documents of up to three nodes and expressions of one or two steps with
\* either axis; find is one synchronous call, so each step that can be
\* taken is taken
FairNodes == 3

FairCand == 1

FairCount == 2

\* nothing called yet
InitFair ==
    /\ document = [kind |-> (0 :> "SvgDocumentElement"), parent |-> << >>]
    /\ obj = [type |-> "list", items |-> << >>]
    /\ xpath = << >>
    /\ pc = "idle"
    /\ calls = << >>
    /\ output = << >>
    /\ msgs = 0
    /\ error = ""

\* the caller picks the document, the candidates and the expression
Call ==
    /\ pc = "idle"
    /\ document' \in Docs(FairNodes, {"Group", "PathElement"})
    /\ obj' \in Objs(document', {"SvgDocumentElement", "list"}, FairCand)
    /\ xpath' \in Exprs(StepTexts({<<"/">>, <<"/", "/">>}, {<<"g">>, <<"*">>},
                                  {<< >>, <<"[", "0", "]">>}), FairCount)
    /\ pc' = "find"
    /\ UNCHANGED <<calls, output, msgs, error>>

NextFair == Call \/ Next

SpecFair == InitFair /\ [][NextFair]_vars /\ WF_vars(NextFair)

(***************************** properties **********************************)
\* the place of a node in the document's depth-first traversal
Pos(doc, n) == CHOOSE i \in 1..Len(iter(doc, 0)) : iter(doc, 0)[i] = n

\* s is a subsequence of the document's depth-first traversal
InDocumentOrder(doc, s) ==
    \A i, j \in 1..Len(s) : i < j => Pos(doc, s[i]) < Pos(doc, s[j])

\* the steps an expression is read as, one after the other
RECURSIVE Steps(_)
Steps(x) ==
    LET m == findall(x)
    IN  IF ~m.found THEN << >>
        ELSE <<m>> \o (IF m.next_xpath = << >> THEN << >> ELSE Steps(m.next_xpath))

\* x is step+ of the grammar: every step starts where the last one ended
\* and nothing is left over
Conforms(x) ==
    LET st == Steps(x)
    IN  /\ st # << >>
        /\ \A i \in 1..Len(st) : st[i].at = 1
        /\ st[Len(st)].next_xpath = << >>

KnownType(m) == m.this_type = <<"*">> \/ m.this_type \in DOMAIN tag_dict

\* a slice with no stop bound
OpenSlice(m) == ":" \in Range(m.this_n) /\ split(m.this_n)[2] = << >>

KnownTypes(x) == \A i \in 1..Len(Steps(x)) : KnownType(Steps(x)[i])

NoOpenSlice(x) == \A i \in 1..Len(Steps(x)) : ~OpenSlice(Steps(x)[i])

Dot3 == <<"/", "/", "*">>

\* C1: whatever find returns for a well-formed expression is a subsequence
\* of the document's depth-first traversal, no node twice
C1_DocumentOrder ==
    (pc = "returned" /\ Conforms(xpath) /\ KnownTypes(xpath) /\ NoOpenSlice(xpath))
        => InDocumentOrder(document, output)

\* C2: find(root, "//*") returns the descendants of the root that are not
\* bookkeeping elements, each once, in document order (stated for the
\* documents whose bookkeeping elements are all children of the root)
C2_WildcardDescendant ==
    (/\ pc = "returned" /\ obj.type = "SvgDocumentElement" /\ xpath = Dot3
     /\ \A n \in DOMAIN document.parent :
           is_meta(document, n) => document.parent[n] = 0)
        => output = SelectSeq(Tail(iter(document, 0)),
                              LAMBDA n : ~is_meta(document, n))

\* C3: an expression with a step whose type code is neither '*' nor a key
\* of tag_dict never makes find return a list
C3_UnknownAliasIsFatal ==
    pc = "returned" => ~(Conforms(xpath) /\ NoOpenSlice(xpath) /\ ~KnownTypes(xpath))

\* C4: an expression that is not step+ of the grammar never makes find
\* return a list
C4_MalformedIsFatal == pc = "returned" => Conforms(xpath)

\* C5: an expression with a slice that has no stop bound, in whichever
\* step, never makes find return a list
C5_OpenSliceRejected ==
    pc = "returned" => ~(Conforms(xpath) /\ KnownTypes(xpath) /\ ~NoOpenSlice(xpath))

Slash_g_0 == <<"/", "g", "[", "0", "]">>

Slash_g_m1 == <<"/", "g", "[", "-", "1", "]">>

Slash_g_0_2 == <<"/", "g", "[", "0", ":", "2", "]">>

Slash_g_p_0 == <<"/", "g", "/", "p", "[", "0", "]">>

\* the Group elements among the candidates
Groups == {n \in Range(obj.items) : document.kind[n] = "Group"}

\* C6: one Immediate step with an index or slice selects among the Group
\* candidates taken in document order, whatever order the caller gave them
\* in and whatever else is among them: [0] the first, [-1] the last, [0:2]
\* the first two
C6_Indexing ==
    pc \in {"returned", "raised"} =>
        /\ pc = "returned"
        /\ (xpath = Slash_g_0 /\ Groups # {}) =>
              /\ Len(output) = 1 /\ output[1] \in Groups
              /\ \A g \in Groups : Pos(document, output[1]) <= Pos(document, g)
        /\ (xpath = Slash_g_m1 /\ Groups # {}) =>
              /\ Len(output) = 1 /\ output[1] \in Groups
              /\ \A g \in Groups : Pos(document, g) <= Pos(document, output[1])
        /\ xpath = Slash_g_0_2 =>
              /\ Range(output) \subseteq Groups
              /\ InDocumentOrder(document, output)
              /\ Len(output) = IF Cardinality(Groups) < 2 THEN Cardinality(Groups) ELSE 2
              /\ \A g \in Groups \ Range(output) : \A o \in Range(output) :
                    Pos(document, o) < Pos(document, g)

\* three sibling Groups and a candidate of another class between them,
\* handed over out of document order, and [-1] has returned
C6_Witness ==
    /\ pc = "returned" /\ xpath = Slash_g_m1
    /\ Cardinality(Groups) = 3 /\ Len(obj.items) = 4
    /\ \A g \in Groups : document.parent[g] = 0
    /\ ~InDocumentOrder(document, obj.items)
    /\ \E n \in Range(obj.items) \ Groups : \E g, h \in Groups :
          Pos(document, g) < Pos(document, n) /\ Pos(document, n) < Pos(document, h)
    /\ Len(output) = 1

\* the call's integer index is outside its type-filtered objects
OutOfRange(doc, call) ==
    LET m == findall(call.cur_xpath)
        hits == {o \in Range(call.objects) :
                    m.this_type = <<"*">> \/ doc.kind[o] = tag_dict[m.this_type]}
    IN  /\ m.found /\ KnownType(m)
        /\ m.this_n # << >> /\ ":" \notin Range(m.this_n)
        /\ \/ int(m.this_n).val >= Cardinality(hits)
           \/ int(m.this_n).val < 0 - Cardinality(hits)

\* C7: a call of recurse whose integer index is out of range prints one
\* warning, adds nothing to the output and raises nothing, and the calls
\* still pending for other containers stay pending; "/g[5]" alone, over
\* five Groups or fewer, returns the empty list with one warning
C7_OutOfRangeRecovered ==
    [][/\ (pc = "recurse" /\ calls # << >> /\ OutOfRange(document, Head(calls))) =>
            /\ pc' = "recurse"
            /\ msgs' = msgs + 1
            /\ output' = output
            /\ Len(calls') >= Len(calls) - 1
            /\ Sub(calls', Len(calls') - Len(calls) + 2, Len(calls')) = Tail(calls)
       /\ (pc' = "returned" /\ xpath = Slash_g_5 /\ Cardinality(Groups) <= 5) =>
            (output' = << >> /\ msgs' = 1)]_vars

\* find has returned what one container gave although the index was out of
\* range in another
C7_Witness ==
    /\ pc = "returned" /\ xpath = Slash_g_p_0
    /\ msgs = 1 /\ Len(output) = 1

ValidExpr(x) == Conforms(x) /\ KnownTypes(x) /\ NoOpenSlice(x)

\* C8: find called with a well-formed expression returns in the end
C8_Termination == (pc = "find" /\ ValidExpr(xpath)) ~> (pc = "returned")

\* find has returned from a Descendant step below an Immediate one, over a
\* document with a Group that has no children and an element that is no
\* container below a Group
C8_Witness ==
    /\ pc = "returned"
    /\ Len(Steps(xpath)) = 2
    /\ Steps(xpath)[1].axis = <<"/">> /\ Steps(xpath)[2].axis = <<"/", "/">>
    /\ \E g \in DOMAIN document.parent :
          /\ document.kind[g] = "Group" /\ document.parent[g] # 0
          /\ Children(document, g) = << >>
    /\ \E n \in DOMAIN document.parent :
          document.kind[n] = "PathElement" /\ document.parent[n] # 0

\* Immediate steps, then one Descendant step, and no more
ImmediateThenDescendant(x) ==
    LET st == Steps(x)
    IN  /\ Conforms(x)
        /\ st[Len(st)].axis = <<"/", "/">>
        /\ \A i \in 1..(Len(st) - 1) : st[i].axis = <<"/">>

\* what may follow the Descendant step: valid steps and text that is none
Remainders ==
    {<<"/", "p">>, <<"/", "/", "g", "[", "0", "]">>, <<"/", "z">>,
     <<"/", "[", "0", "]">>, <<"/", "g", "[", "1", ":", "]">>, <<"/">>}

\* C9: whatever follows a Descendant step changes nothing: find of the
\* expression with a remainder appended returns, or raises, what find of
\* the expression did
C9_RemainderIgnored ==
    (pc \in {"returned", "raised"} /\ ImmediateThenDescendant(xpath)) =>
        \A R \in Remainders :
            LET r == find(document, obj, xpath \o R)
            IN  /\ r.raised = error
                /\ pc = "returned" => (r.output = output /\ r.msgs = msgs)

\* find has returned nodes for an Immediate step followed by a Descendant one
C9_Witness ==
    /\ pc = "returned" /\ ImmediateThenDescendant(xpath)
    /\ Len(Steps(xpath)) = 2 /\ output # << >>

RECURSIVE Flatten(_)
Flatten(ss) == IF ss = << >> THEN << >> ELSE Head(ss) \o Flatten(Tail(ss))

PathChildren(g) ==
    SelectSeq(Children(document, g), LAMBDA n : document.kind[n] = "PathElement")

\* C10: "/g/p[0]" returns, for each Group candidate in document order, the
\* first PathElement among that Group's own children, and one warning for
\* each Group that has none
C10_IndexPerContainer ==
    (pc \in {"returned", "raised"} /\ xpath = Slash_g_p_0) =>
        LET gs == SelectSeq(iter(document, 0), LAMBDA n : n \in Groups)
        IN  /\ pc = "returned"
            /\ output = Flatten([i \in 1..Len(gs) |->
                                   IF PathChildren(gs[i]) = << >> THEN << >>
                                   ELSE <<PathChildren(gs[i])[1]>>])
            /\ msgs = Cardinality({g \in Groups : PathChildren(g) = << >>})

\* two Groups with a PathElement each, and "/g/p[0]" has returned two nodes
C10_Witness ==
    /\ pc = "returned" /\ xpath = Slash_g_p_0
    /\ Len(output) = 2
====
